---- MODULE Spec2Model ----
(***************************************************************************)
(* The three CARLA driver scripts of the repository, as one state machine. *)
(*                                                                         *)
(*   basicEgentFirstTime.py  reference vehicle + camera + marker bus +     *)
(*                           traffic lights + traffic cars + BasicAgent    *)
(*   addingTraffic.py        reference vehicle + camera + traffic cars     *)
(*   spwnSpcfcLocCamOk.py    reference vehicle + camera                    *)
(*                                                                         *)
(* The variable script selects which main() runs.  pc is the statement of  *)
(* main() (or of spawn_traffic_cars) about to execute.  The simulator, the *)
(* window system and the navigation agent are external: every call into    *)
(* them either returns or raises, and try_spawn_actor may return None.     *)
(* The camera callback runs on the simulator's thread and interleaves with *)
(* every statement of main() once camera.listen has registered it.         *)
(*                                                                         *)
(* A second specification, DecSpec, applies carla_image_to_pygame and the  *)
(* loop's swapaxes to every frame of a bounded family.                     *)
(***************************************************************************)
EXTENDS Integers, Sequences, FiniteSets, TLC

VARIABLES
    script,        \* which of the three scripts runs
    pc,            \* statement about to execute
    spawn_points,  \* len(world.get_map().get_spawn_points())
    vehicle,       \* main's local: reference vehicle
    camera,        \* main's local: camera sensor
    bus,           \* main's local: endpoint marker (basicEgentFirstTime only)
    traffic_cars,  \* main's local list
    stc_cars,      \* spawn_traffic_cars' local list traffic_cars
    stc_i,         \* spawn_traffic_cars' loop index i
    autopilot,     \* history: handles set_autopilot(True) returned for
    fin_k,         \* position of the finally block's for loop in traffic_cars
    latest_image,  \* the nonlocal slot: <<>> is None, <<f>> holds frame f
    listening,     \* camera.listen has registered the callback
    nDelivered,    \* history: number N of callback invocations so far
    lastDelivered, \* history: <<FN>>, the frame of the Nth invocation (<<>>: N = 0)
    tested,        \* history: what `if latest_image:` read in the tick in progress
    surface,       \* the array last blitted to the window (<<>>: blank or closed)
    requests,      \* history: creation requests sent to the simulator
    acquired,      \* history: handles the simulator created for this session
    destroyLog,    \* history: handles destroy() was called on, in call order
    destroyFailed, \* history: some destroy() call reported a failure
    loopLog,       \* history: window / control calls of the display loop
    ticks,         \* completed loop iterations
    quitSeen,      \* history: a pygame.QUIT event was observed
    raisedAt,      \* history: statement an exception was last raised at
    escaped        \* an exception propagated out of main()

vars == <<script, pc, spawn_points, vehicle, camera, bus, traffic_cars,
          stc_cars, stc_i, autopilot, fin_k, latest_image, listening, nDelivered, lastDelivered, tested,
          surface, requests, acquired, destroyLog, destroyFailed, loopLog,
          ticks, quitSeen, raisedAt, escaped>>

----------------------------------------------------------------------------
(* Bounds of the model.                                                    *)

\* Spawn points the loaded map may report (0 .. MaxPoints).
MaxPoints == 2
\* num_cars handed to spawn_traffic_cars.  Both callers pass 10; the model
\* runs the same loop with a smaller count, larger than MaxPoints so that the
\* pose list is cycled.
NumCars == 3
\* Loop iterations that run to clock.tick before a quit event or an error.
MaxTicks == 2
\* Invocations of the camera callback.
MaxFrames == 2
\* Pixels (width * height) of a frame handed to the decoder in DecSpec.
MaxPixels == 4

----------------------------------------------------------------------------
(* Values.                                                                 *)

Basic   == "basicEgentFirstTime"
Traffic == "addingTraffic"
CamOnly == "spwnSpcfcLocCamOk"
Scripts == {Basic, Traffic, CamOnly}

\* A local name that was never assigned, Python's None, and actor handles.
Unbound  == <<"unbound", 0>>
NoneVal  == <<"None", 0>>
H(kind, n) == <<kind, n>>
VehicleH == H("vehicle", 0)
CameraH  == H("camera", 0)
BusH     == H("bus", 0)
CarH(i)  == H("car", i)

\* Poses of creation requests.
SpawnPose(idx) == <<"spawn_point", idx>>
AttachedPose   == <<"attached_to_vehicle", 0>>
EndpointPose   == <<"endpoint", 0>>

Last(s) == s[Len(s)]
Count(s, x) == Cardinality({j \in DOMAIN s : s[j] = x})
InSeq(s, x) == \E j \in DOMAIN s : s[j] = x

----------------------------------------------------------------------------
(* Frames and the decoder.                                                 *)

\* B, G, R, A quadruples used to fill frames.
ColourA == <<10, 20, 30, 255>>
ColourB == <<40, 50, 60, 128>>
ColourC == <<0, 0, 200, 0>>
Colours == {ColourA, ColourB, ColourC}

RECURSIVE Flatten(_)
Flatten(pixels) ==
    IF pixels = <<>> THEN <<>> ELSE Head(pixels) \o Flatten(Tail(pixels))

Frame(w, h, raw) == [width |-> w, height |-> h, raw_data |-> raw]

\* Python truth value of the slot: None is false; a carla.Image is true when
\* its __len__ (the pixel count) is not zero.
TruthyAlways(slot) == TRUE
Truthy(slot) == slot # <<>> /\ slot[1].width * slot[1].height > 0

\* np.frombuffer(image.raw_data, dtype=np.uint8)
Frombuffer(raw) == [j \in 1..Len(raw) |-> raw[j] % 256]

\* array.reshape((h, w, c)) raises ValueError unless the sizes agree.
CanReshape(arr, h, w, c) == Len(arr) = h * w * c
Reshape(arr, h, w, c) ==
    [y \in 1..h |-> [x \in 1..w |-> [ch \in 1..c |->
        arr[((y - 1) * w + (x - 1)) * c + ch]]]]

\* array[:, :, :3]
TakeThreeChannels(arr) ==
    [y \in DOMAIN arr |-> [x \in DOMAIN arr[y] |-> SubSeq(arr[y][x], 1, 3)]]

\* array[:, :, ::-1]
ReverseChannelsOmitted(arr) == arr
ReverseChannels(arr) ==
    [y \in DOMAIN arr |-> [x \in DOMAIN arr[y] |->
        [ch \in 1..Len(arr[y][x]) |-> arr[y][x][Len(arr[y][x]) + 1 - ch]]]]

\* image_array.swapaxes(0, 1)
Swapaxes01(arr) ==
    IF arr = <<>> THEN <<>>
    ELSE [x \in DOMAIN arr[1] |-> [y \in DOMAIN arr |-> arr[y][x]]]

Decodable(image) ==
    CanReshape(Frombuffer(image.raw_data), image.height, image.width, 4)

carla_image_to_pygame(image) ==
    ReverseChannels(TakeThreeChannels(
        Reshape(Frombuffer(image.raw_data), image.height, image.width, 4)))

\* What the loop hands to make_surface and blits.
SurfaceArray(image) == Swapaxes01(carla_image_to_pygame(image))

\* Frames handed to the decoder in DecSpec: every width x height of at most
\* MaxPixels pixels, every filling with Colours, and for each the same buffer
\* with its last byte missing.
DecFrames ==
    LET sizes == { wh \in (1..MaxPixels) \X (1..MaxPixels) : wh[1] * wh[2] <= MaxPixels }
        good == UNION { { Frame(wh[1], wh[2], Flatten(px)) :
                            px \in [1..(wh[1] * wh[2]) -> Colours] } : wh \in sizes }
    IN  good \cup { Frame(f.width, f.height, SubSeq(f.raw_data, 1, Len(f.raw_data) - 1)) :
                      f \in good }

\* Frames the camera delivers during a session: two well-formed one-pixel
\* frames of different colour and one whose buffer is a byte short.
SessionFrames ==
    { Frame(1, 1, ColourA), Frame(1, 1, ColourB),
      Frame(1, 1, SubSeq(ColourA, 1, 3)) }

----------------------------------------------------------------------------
(* Control flow of main().                                                 *)

\* Statement that follows camera.listen(...).
AfterListen(s) ==
    IF s = Basic THEN "spawn_bus"
    ELSE IF s = Traffic THEN "stc_enter" ELSE "loop_events"

\* Statement that follows traffic_cars = spawn_traffic_cars(...).
AfterTraffic(s) == IF s = Basic THEN "agent" ELSE "loop_events"

\* Statement that follows the event loop of a tick that saw no quit event.
AfterEventsNoControl(s) == "loop_test"
AfterEvents(s) == IF s = Basic THEN "run_step" ELSE "loop_test"

\* `return` inside the try block: control goes to the finally block.
OnReturnFallsThrough == "spawn_camera"
OnReturn == "fin_quit"

\* `if event.type == pygame.QUIT: return`
OnQuitBreak(s) == AfterEvents(s)
OnQuit(s) == OnReturn

\* An exception raised at statement `stage` inside the try block is caught by
\* `except Exception as e`, which prints it; the finally block follows.
RaiseSwallowedAtConnect(stage) ==
    /\ pc' = IF stage = "connect" THEN "get_spawn_points" ELSE "except"
    /\ raisedAt' = stage
Raise(stage) ==
    /\ pc' = "except"
    /\ raisedAt' = stage

\* The statements of the finally block after pygame.quit(), in order.
FinallyStepsCarsFirst(s) ==
    IF s = Basic THEN <<"fin_cars", "fin_camera", "fin_vehicle", "fin_bus">>
    ELSE IF s = Traffic THEN <<"fin_cars", "fin_camera", "fin_vehicle">>
    ELSE <<"fin_camera", "fin_vehicle">>
FinallySteps(s) ==
    IF s = Basic THEN <<"fin_camera", "fin_vehicle", "fin_bus", "fin_cars">>
    ELSE IF s = Traffic THEN <<"fin_camera", "fin_vehicle", "fin_cars">>
    ELSE <<"fin_camera", "fin_vehicle">>

FinFirst(s) == FinallySteps(s)[1]
FinNext(s, step) ==
    LET steps == FinallySteps(s)
        j == CHOOSE n \in DOMAIN steps : steps[n] = step
    IN  IF j < Len(steps) THEN steps[j + 1] ELSE "done"

\* Value of camera, vehicle, bus before the try block: basicEgentFirstTime
\* assigns None to all three, the other two scripts leave the names unbound.
InitialLocal(s) == IF s = Basic THEN NoneVal ELSE Unbound

\* The finally block's guard: `x is not None` (basicEgentFirstTime) and
\* `'x' in locals() and x is not None` (the other two).
GuardNoNoneTest(v) == v # Unbound
HeldHandle(v) == v # Unbound /\ v # NoneVal

\* spawn_points[i % len(spawn_points)]
SpawnPointIndexClamped(i, m) == IF i < m THEN i ELSE m - 1
SpawnPointIndexSkipFirst(i, m) == (i + 1) % m
SpawnPointIndex(i, m) == i % m

\* The else branch of `if vehicle:` only prints; the for loop goes on with
\* the next unit.
AfterFailedSpawnBreak(i) == NumCars
AfterFailedSpawnRetry(i) == i
AfterFailedSpawn(i) == i + 1

\* process_image: what the slot holds after the callback ran with `image`.
process_image_keep_first(slot, image) == IF slot = <<>> THEN <<image>> ELSE slot
process_image(slot, image) == <<image>>

Request(kind, unit, pose, result) ==
    [kind |-> kind, unit |-> unit, pose |-> pose, result |-> result]

----------------------------------------------------------------------------
(* Groups of variables left alone.                                         *)

locals  == <<vehicle, camera, bus, traffic_cars>>
stcv    == <<stc_cars, stc_i, autopilot>>
framev  == <<latest_image, listening, nDelivered, lastDelivered>>
loopv   == <<tested, surface, loopLog, ticks, quitSeen>>
simv    == <<requests, acquired>>
finv    == <<fin_k, destroyLog, destroyFailed, escaped>>

----------------------------------------------------------------------------
(* State on entry to the try block of main(): pygame is initialised, the   *)
(* window exists, and the locals assigned before `try:` hold their values. *)

Init ==
    /\ script \in Scripts
    /\ pc = "connect"
    /\ spawn_points = 0
    /\ vehicle = InitialLocal(script)
    /\ camera = InitialLocal(script)
    /\ bus = InitialLocal(script)
    /\ traffic_cars = <<>>
    /\ stc_cars = <<>>
    /\ stc_i = 0
    /\ autopilot = {}
    /\ fin_k = 0
    /\ latest_image = <<>>
    /\ listening = FALSE
    /\ nDelivered = 0
    /\ lastDelivered = <<>>
    /\ tested = <<>>
    /\ surface = <<>>
    /\ requests = <<>>
    /\ acquired = {}
    /\ destroyLog = <<>>
    /\ destroyFailed = FALSE
    /\ loopLog = <<>>
    /\ ticks = 0
    /\ quitSeen = FALSE
    /\ raisedAt = "none"
    /\ escaped = FALSE

----------------------------------------------------------------------------
(* Acquisition.                                                            *)

\* carla.Client(...), set_timeout, load_world, get_world, time.sleep
Connect ==
    /\ pc = "connect"
    /\ \/ /\ pc' = "get_spawn_points"
          /\ UNCHANGED raisedAt
       \/ Raise("connect")
    /\ UNCHANGED <<script, spawn_points, locals, stcv, framev, loopv, simv, finv>>

\* spawn_points = world.get_map().get_spawn_points(); if not spawn_points: return
GetSpawnPoints ==
    /\ pc = "get_spawn_points"
    /\ \/ \E m \in 0..MaxPoints :
            /\ spawn_points' = m
            /\ pc' = IF m = 0 THEN OnReturn ELSE "spawn_vehicle"
            /\ UNCHANGED raisedAt
       \/ /\ Raise("get_spawn_points")
          /\ UNCHANGED spawn_points
    /\ UNCHANGED <<script, locals, stcv, framev, loopv, simv, finv>>

\* vehicle = world.try_spawn_actor(vehicle_bp, spawn_points[0])
\* if vehicle is None: return
SpawnVehicle ==
    /\ pc = "spawn_vehicle"
    /\ \/ /\ requests' = Append(requests, Request("vehicle", 0, SpawnPose(0), "ok"))
          /\ acquired' = acquired \cup {VehicleH}
          /\ vehicle' = VehicleH
          /\ pc' = "spawn_camera"
          /\ UNCHANGED raisedAt
       \/ /\ requests' = Append(requests, Request("vehicle", 0, SpawnPose(0), "None"))
          /\ vehicle' = NoneVal
          /\ pc' = OnReturn
          /\ UNCHANGED <<acquired, raisedAt>>
       \/ /\ requests' = Append(requests, Request("vehicle", 0, SpawnPose(0), "raise"))
          /\ Raise("spawn_vehicle")
          /\ UNCHANGED <<acquired, vehicle>>
    /\ UNCHANGED <<script, spawn_points, camera, bus, traffic_cars, stcv, framev,
                   loopv, finv>>

\* camera = world.spawn_actor(camera_bp, camera_transform, attach_to=vehicle)
\* spawn_actor raises where try_spawn_actor would return None.
SpawnCamera ==
    /\ pc = "spawn_camera"
    /\ \/ /\ requests' = Append(requests, Request("camera", 0, AttachedPose, "ok"))
          /\ acquired' = acquired \cup {CameraH}
          /\ camera' = CameraH
          /\ pc' = "listen"
          /\ UNCHANGED raisedAt
       \/ /\ requests' = Append(requests, Request("camera", 0, AttachedPose, "raise"))
          /\ Raise("spawn_camera")
          /\ UNCHANGED <<acquired, camera>>
    /\ UNCHANGED <<script, spawn_points, vehicle, bus, traffic_cars, stcv, framev,
                   loopv, finv>>

\* latest_image = None; camera.listen(lambda image: process_image(image))
Listen ==
    /\ pc = "listen"
    /\ latest_image' = <<>>
    /\ \/ /\ listening' = TRUE
          /\ pc' = AfterListen(script)
          /\ UNCHANGED raisedAt
       \/ /\ Raise("listen")
          /\ UNCHANGED listening
    /\ UNCHANGED <<script, spawn_points, locals, stcv, nDelivered, lastDelivered, loopv,
                   simv, finv>>

\* bus = world.try_spawn_actor(bus_bp, bus_transform); both outcomes go on.
SpawnBus ==
    /\ pc = "spawn_bus"
    /\ \/ /\ requests' = Append(requests, Request("bus", 0, EndpointPose, "ok"))
          /\ acquired' = acquired \cup {BusH}
          /\ bus' = BusH
          /\ pc' = "setup_traffic_lights"
          /\ UNCHANGED raisedAt
       \/ /\ requests' = Append(requests, Request("bus", 0, EndpointPose, "None"))
          /\ bus' = NoneVal
          /\ pc' = "setup_traffic_lights"
          /\ UNCHANGED <<acquired, raisedAt>>
       \/ /\ requests' = Append(requests, Request("bus", 0, EndpointPose, "raise"))
          /\ Raise("spawn_bus")
          /\ UNCHANGED <<acquired, bus>>
    /\ UNCHANGED <<script, spawn_points, vehicle, camera, traffic_cars, stcv, framev,
                   loopv, finv>>

\* traffic_lights = setup_traffic_lights(world): creates no actor.
SetupTrafficLights ==
    /\ pc = "setup_traffic_lights"
    /\ \/ /\ pc' = "stc_enter"
          /\ UNCHANGED raisedAt
       \/ Raise("setup_traffic_lights")
    /\ UNCHANGED <<script, spawn_points, locals, stcv, framev, loopv, simv, finv>>

----------------------------------------------------------------------------
(* spawn_traffic_cars(world, blueprint_library, num_cars).                 *)

\* traffic_cars = []; spawn_points = world.get_map().get_spawn_points()
StcEnter ==
    /\ pc = "stc_enter"
    /\ \/ /\ stc_cars' = <<>>
          /\ stc_i' = 0
          /\ pc' = "stc_loop"
          /\ UNCHANGED <<autopilot, raisedAt>>
       \/ /\ Raise("stc_enter")
          /\ UNCHANGED stcv
    /\ UNCHANGED <<script, spawn_points, locals, framev, loopv, simv, finv>>

\* Loop body up to the `if vehicle:` test, for unit i.
StcSpawn ==
    /\ pc = "stc_loop"
    /\ stc_i < NumCars
    /\ LET pose == SpawnPose(SpawnPointIndex(stc_i, spawn_points)) IN
       \/ /\ requests' = Append(requests, Request("car", stc_i, pose, "ok"))
          /\ acquired' = acquired \cup {CarH(stc_i)}
          /\ stc_cars' = Append(stc_cars, CarH(stc_i))
          /\ pc' = "stc_autopilot"
          /\ UNCHANGED <<stc_i, autopilot, raisedAt>>
       \/ /\ requests' = Append(requests, Request("car", stc_i, pose, "None"))
          /\ stc_i' = AfterFailedSpawn(stc_i)
          /\ pc' = "stc_loop"
          /\ UNCHANGED <<acquired, stc_cars, autopilot, raisedAt>>
       \/ /\ requests' = Append(requests, Request("car", stc_i, pose, "raise"))
          /\ Raise("stc_loop")
          /\ UNCHANGED <<acquired, stcv>>
    /\ UNCHANGED <<script, spawn_points, locals, framev, loopv, finv>>

\* vehicle.set_autopilot(True) on the car just appended.
StcAutopilot ==
    /\ pc = "stc_autopilot"
    /\ \/ /\ autopilot' = autopilot \cup {Last(stc_cars)}
          /\ stc_i' = stc_i + 1
          /\ pc' = "stc_loop"
          /\ UNCHANGED raisedAt
       \/ /\ Raise("stc_autopilot")
          /\ UNCHANGED <<stc_i, autopilot>>
    /\ UNCHANGED <<script, spawn_points, locals, stc_cars, framev, loopv, simv, finv>>

\* return traffic_cars, assigned to main's traffic_cars.
StcReturn ==
    /\ pc = "stc_loop"
    /\ stc_i = NumCars
    /\ traffic_cars' = stc_cars
    /\ pc' = AfterTraffic(script)
    /\ UNCHANGED <<script, spawn_points, vehicle, camera, bus, stcv, framev, loopv,
                   simv, finv, raisedAt>>

\* agent = BasicAgent(vehicle); agent.set_destination(endpoint_location)
Agent ==
    /\ pc = "agent"
    /\ \/ /\ pc' = "loop_events"
          /\ UNCHANGED raisedAt
       \/ Raise("agent")
    /\ UNCHANGED <<script, spawn_points, locals, stcv, framev, loopv, simv, finv>>

----------------------------------------------------------------------------
(* The display loop: one action per statement of `while True:`.            *)

\* Batches of events one pygame.event.get() may return.
EventBatches ==
    { <<>>, <<"KEYDOWN">>, <<"QUIT">>, <<"KEYDOWN", "QUIT">>, <<"QUIT", "KEYDOWN">> }

\* for event in pygame.event.get(): if event.type == pygame.QUIT: return
LoopEvents ==
    /\ pc = "loop_events"
    /\ \/ \E evs \in EventBatches :
            /\ loopLog' = Append(loopLog, "event_get")
            /\ IF InSeq(evs, "QUIT")
               THEN /\ quitSeen' = TRUE
                    /\ pc' = OnQuit(script)
               ELSE /\ ticks < MaxTicks
                    /\ quitSeen' = quitSeen
                    /\ pc' = AfterEvents(script)
            /\ UNCHANGED raisedAt
       \/ /\ loopLog' = Append(loopLog, "event_get")
          /\ Raise("loop_events")
          /\ UNCHANGED quitSeen
    /\ UNCHANGED <<script, spawn_points, locals, stcv, framev, tested, surface,
                   ticks, simv, finv>>

\* control = agent.run_step()
LoopRunStep ==
    /\ pc = "run_step"
    /\ loopLog' = Append(loopLog, "run_step")
    /\ \/ /\ pc' = "apply_control"
          /\ UNCHANGED raisedAt
       \/ Raise("run_step")
    /\ UNCHANGED <<script, spawn_points, locals, stcv, framev, tested, surface,
                   ticks, quitSeen, simv, finv>>

\* vehicle.apply_control(control)
LoopApplyControl ==
    /\ pc = "apply_control"
    /\ loopLog' = Append(loopLog, "apply_control")
    /\ \/ /\ pc' = "loop_test"
          /\ UNCHANGED raisedAt
       \/ Raise("apply_control")
    /\ UNCHANGED <<script, spawn_points, locals, stcv, framev, tested, surface,
                   ticks, quitSeen, simv, finv>>

\* if latest_image:
LoopTest ==
    /\ pc = "loop_test"
    /\ tested' = latest_image
    /\ pc' = IF Truthy(latest_image) THEN "loop_decode" ELSE "loop_flip"
    /\ UNCHANGED <<script, spawn_points, locals, stcv, framev, surface, loopLog,
                   ticks, quitSeen, simv, finv, raisedAt>>

\* The slot after the loop's `if latest_image:` block: the block passes
\* latest_image to carla_image_to_pygame and never assigns it.
SlotAfterBlitCleared(slot) == <<>>
SlotAfterBlit(slot) == slot

\* image_array = carla_image_to_pygame(latest_image)
\* surface = pygame.surfarray.make_surface(image_array.swapaxes(0, 1))
\* display.blit(surface, (0, 0))
\* The slot is read again here; reshape raises ValueError on a buffer whose
\* size is not height * width * 4, None has no raw_data (AttributeError), and
\* the window calls may raise.
LoopDecode ==
    /\ pc = "loop_decode"
    /\ LET image == IF latest_image = <<>> THEN Frame(0, 0, <<>>) ELSE latest_image[1] IN
       IF latest_image # <<>> /\ Decodable(image)
       THEN \/ /\ surface' = SurfaceArray(image)
               /\ loopLog' = Append(loopLog, "blit")
               /\ latest_image' = SlotAfterBlit(latest_image)
               /\ pc' = "loop_flip"
               /\ UNCHANGED raisedAt
            \/ /\ Raise("loop_decode")
               /\ UNCHANGED <<surface, loopLog, latest_image>>
       ELSE /\ Raise("loop_decode")
            /\ UNCHANGED <<surface, loopLog, latest_image>>
    /\ UNCHANGED <<script, spawn_points, locals, stcv, listening, nDelivered,
                   lastDelivered, tested, ticks, quitSeen, simv, finv>>

\* pygame.display.flip(); clock.tick(30)
LoopFlip ==
    /\ pc = "loop_flip"
    /\ loopLog' = Append(loopLog, "flip")
    /\ \/ /\ ticks' = ticks + 1
          /\ tested' = <<>>
          /\ pc' = "loop_events"
          /\ UNCHANGED raisedAt
       \/ /\ Raise("loop_flip")
          /\ UNCHANGED <<ticks, tested>>
    /\ UNCHANGED <<script, spawn_points, locals, stcv, framev, surface,
                   quitSeen, simv, finv>>

\* The camera callback, on the simulator's thread: latest_image = image.
Callback ==
    /\ listening
    /\ pc # "done"
    /\ nDelivered < MaxFrames
    /\ \E image \in SessionFrames :
         /\ latest_image' = process_image(latest_image, image)
         /\ nDelivered' = nDelivered + 1
         /\ lastDelivered' = <<image>>
    /\ UNCHANGED <<script, pc, spawn_points, locals, stcv, listening, loopv, simv,
                   finv, raisedAt>>

----------------------------------------------------------------------------
(* except / finally.                                                       *)

\* except Exception as e: print(f"Error: {e}")
Except ==
    /\ pc = "except"
    /\ pc' = "fin_quit"
    /\ UNCHANGED <<script, spawn_points, locals, stcv, framev, loopv, simv, finv,
                   raisedAt>>

\* finally: pygame.quit(), which closes the window: nothing is displayed
\* any more, and no tick is in progress.
FinQuit ==
    /\ pc = "fin_quit"
    /\ pc' = FinFirst(script)
    /\ surface' = <<>>
    /\ tested' = <<>>
    /\ UNCHANGED <<script, spawn_points, locals, stcv, framev, loopLog, ticks,
                   quitSeen, simv, finv, raisedAt>>

\* h.destroy() at finally-statement `step`.  The call returns (True, or False
\* for an actor the simulator no longer has) or raises; nothing in the finally
\* block catches, so a raise leaves main().  None has no destroy().
Destroy(h, step, next) ==
    /\ destroyLog' = Append(destroyLog, h)
    /\ \/ /\ h # NoneVal
          /\ pc' = next
          /\ UNCHANGED <<destroyFailed, escaped, raisedAt>>
       \/ /\ h # NoneVal
          /\ pc' = next
          /\ destroyFailed' = TRUE
          /\ UNCHANGED <<escaped, raisedAt>>
       \/ /\ pc' = "done"
          /\ destroyFailed' = TRUE
          /\ escaped' = TRUE
          /\ raisedAt' = step

Skip(next) ==
    /\ pc' = next
    /\ UNCHANGED <<destroyLog, destroyFailed, escaped, raisedAt>>

\* if camera is not None: camera.destroy()
FinCamera ==
    /\ pc = "fin_camera"
    /\ IF HeldHandle(camera)
       THEN /\ Destroy(camera, "fin_camera", FinNext(script, "fin_camera"))
            /\ listening' = FALSE
       ELSE /\ Skip(FinNext(script, "fin_camera"))
            /\ UNCHANGED listening
    /\ UNCHANGED <<script, spawn_points, locals, stcv, fin_k, latest_image,
                   nDelivered, lastDelivered, loopv, simv>>

\* if vehicle is not None: vehicle.destroy()
FinVehicle ==
    /\ pc = "fin_vehicle"
    /\ IF HeldHandle(vehicle)
       THEN Destroy(vehicle, "fin_vehicle", FinNext(script, "fin_vehicle"))
       ELSE Skip(FinNext(script, "fin_vehicle"))
    /\ UNCHANGED <<script, spawn_points, locals, stcv, fin_k, framev, loopv, simv>>

\* if bus is not None: bus.destroy()
FinBus ==
    /\ pc = "fin_bus"
    /\ IF HeldHandle(bus)
       THEN Destroy(bus, "fin_bus", FinNext(script, "fin_bus"))
       ELSE Skip(FinNext(script, "fin_bus"))
    /\ UNCHANGED <<script, spawn_points, locals, stcv, fin_k, framev, loopv, simv>>

\* for traffic_car in traffic_cars: traffic_car.destroy()
FinCars ==
    /\ pc = "fin_cars"
    /\ IF fin_k < Len(traffic_cars)
       THEN /\ Destroy(traffic_cars[fin_k + 1], "fin_cars", "fin_cars")
            /\ fin_k' = fin_k + 1
       ELSE /\ Skip(FinNext(script, "fin_cars"))
            /\ UNCHANGED fin_k
    /\ UNCHANGED <<script, spawn_points, locals, stcv, framev, loopv, simv>>

----------------------------------------------------------------------------

Next ==
    \/ Connect
    \/ GetSpawnPoints
    \/ SpawnVehicle
    \/ SpawnCamera
    \/ Listen
    \/ SpawnBus
    \/ SetupTrafficLights
    \/ StcEnter
    \/ StcSpawn
    \/ StcAutopilot
    \/ StcReturn
    \/ Agent
    \/ LoopEvents
    \/ LoopRunStep
    \/ LoopApplyControl
    \/ LoopTest
    \/ LoopDecode
    \/ LoopFlip
    \/ Callback
    \/ Except
    \/ FinQuit
    \/ FinCamera
    \/ FinVehicle
    \/ FinBus
    \/ FinCars

Spec == Init /\ [][Next]_vars

\* The steps of main()'s own thread.  Every call main() makes is a blocking
\* call that returns or raises (the client has a 10 s timeout), so main()
\* keeps taking steps until it is over; the callback thread owes nothing.
MainStep ==
    \/ Connect \/ GetSpawnPoints \/ SpawnVehicle \/ SpawnCamera \/ Listen
    \/ SpawnBus \/ SetupTrafficLights \/ StcEnter \/ StcSpawn \/ StcAutopilot
    \/ StcReturn \/ Agent \/ LoopEvents \/ LoopRunStep \/ LoopApplyControl
    \/ LoopTest \/ LoopDecode \/ LoopFlip \/ Except \/ FinQuit \/ FinCamera
    \/ FinVehicle \/ FinBus \/ FinCars

FairSpec == Spec /\ WF_vars(MainStep)

----------------------------------------------------------------------------
(* DecSpec: carla_image_to_pygame and the loop's swapaxes on their own.    *)
(* latest_image holds the frame, surface receives what would be blitted.   *)

DecInit ==
    /\ script = CamOnly
    /\ pc = "dec_ready"
    /\ spawn_points = 0
    /\ vehicle = Unbound
    /\ camera = Unbound
    /\ bus = Unbound
    /\ traffic_cars = <<>>
    /\ stc_cars = <<>>
    /\ stc_i = 0
    /\ autopilot = {}
    /\ fin_k = 0
    /\ \E f \in DecFrames : latest_image = <<f>>
    /\ listening = FALSE
    /\ nDelivered = 0
    /\ lastDelivered = <<>>
    /\ tested = <<>>
    /\ surface = <<>>
    /\ requests = <<>>
    /\ acquired = {}
    /\ destroyLog = <<>>
    /\ destroyFailed = FALSE
    /\ loopLog = <<>>
    /\ ticks = 0
    /\ quitSeen = FALSE
    /\ raisedAt = "none"
    /\ escaped = FALSE

\* A buffer of height * width * 4 bytes is decoded and axis-swapped.
DecDecode ==
    /\ pc = "dec_ready"
    /\ Decodable(latest_image[1])
    /\ surface' = SurfaceArray(latest_image[1])
    /\ pc' = "dec_done"
    /\ UNCHANGED <<script, spawn_points, locals, stcv, framev, tested, loopLog,
                   ticks, quitSeen, simv, finv, raisedAt>>

\* Any other buffer makes reshape raise ValueError.
DecValueError ==
    /\ pc = "dec_ready"
    /\ ~Decodable(latest_image[1])
    /\ pc' = "dec_error"
    /\ raisedAt' = "dec_ready"
    /\ UNCHANGED <<script, spawn_points, locals, stcv, framev, loopv, simv, finv>>

DecNext ==
    \/ DecDecode
    \/ DecValueError

DecSpec == DecInit /\ [][DecNext]_vars

----------------------------------------------------------------------------
(* Properties.                                                             *)

\* Handles main() holds in its locals when the finally block runs.
Held ==
    {v \in {camera, vehicle, bus} : HeldHandle(v)}
        \cup {traffic_cars[j] : j \in DOMAIN traffic_cars}

Destroyed == {destroyLog[j] : j \in DOMAIN destroyLog}

\* C1: when main() has returned, every handle the simulator created for the
\* session has had destroy() called on it exactly once.  Stated for the exit
\* paths on which the finally block ran to its end; a destroy() that raises is
\* the case of C4.
C1_ReleasedExactlyOnce ==
    (pc = "done" /\ ~escaped) =>
        \A h \in acquired : Count(destroyLog, h) = 1

\* C2: when a creation request failed partway (None for the marker bus or a
\* traffic car, or the camera's spawn_actor raised after the vehicle was
\* created), the finished session has called destroy() on every acquired
\* handle and on no other.
SpawnFailedPartway ==
    \E j \in DOMAIN requests :
        \/ requests[j].kind \in {"bus", "car"} /\ requests[j].result = "None"
        \/ requests[j].kind = "camera" /\ requests[j].result = "raise"
C2_FailedSpawnTeardown ==
    (pc = "done" /\ SpawnFailedPartway) => Destroyed = acquired

\* C3: destroy() calls come in the order camera, reference vehicle, marker
\* bus, traffic cars, and a traffic car is destroyed only after destroy() was
\* called on the camera and on the reference vehicle.
DestroyRank(h) ==
    CASE h[1] = "camera" -> 1
      [] h[1] = "vehicle" -> 2
      [] h[1] = "bus" -> 3
      [] OTHER -> 4
C3_TeardownOrder ==
    /\ \A i, j \in DOMAIN destroyLog :
         i < j => DestroyRank(destroyLog[i]) <= DestroyRank(destroyLog[j])
    /\ \A j \in DOMAIN destroyLog :
         destroyLog[j][1] = "car" =>
            /\ \E a \in 1..(j - 1) : destroyLog[a] = CameraH
            /\ \E b \in 1..(j - 1) : destroyLog[b] = VehicleH
C3_Witness ==
    /\ pc = "done"
    /\ ~escaped
    /\ Destroyed = {CameraH, VehicleH, BusH} \cup {traffic_cars[j] : j \in DOMAIN traffic_cars}
    /\ Len(traffic_cars) >= 2

\* C4: when a destroy() call of the finally block failed, destroy() has still
\* been called on every handle main() holds once main() is over, and no
\* exception left main().
C4_DestroyFailureTolerated ==
    (pc = "done" /\ destroyFailed) =>
        /\ ~escaped
        /\ Held \subseteq Destroyed

\* C5: once a QUIT event was observed, the loop makes no further call
\* (run_step, apply_control, blit, flip, or another event poll), and the last
\* call it made is the event poll that returned the QUIT event.
C5_QuitStopsLoop ==
    /\ [][quitSeen => loopLog' = loopLog]_vars
    /\ [](quitSeen => Last(loopLog) = "event_get")
C5_Witness ==
    /\ quitSeen
    /\ pc = "done"
    /\ InSeq(loopLog, "blit")
    /\ InSeq(loopLog, "flip")

\* C6: after N callback invocations the slot holds the frame of the Nth one,
\* in every state up to the next invocation, whatever main() did in between;
\* before the first invocation it is empty.
C6_LastWriteWins ==
    /\ nDelivered = 0 => latest_image = <<>>
    /\ nDelivered > 0 => latest_image = lastDelivered
C6_Witness ==
    /\ nDelivered = 2
    /\ pc = "loop_flip"
    /\ tested # <<>>
    /\ tested # latest_image

\* C7: when connecting or loading the map raised, no creation request was
\* sent, no handle exists and destroy() is never called.
C7_ConnectFailureSpawnsNothing ==
    raisedAt = "connect" =>
        /\ requests = <<>>
        /\ acquired = {}
        /\ destroyLog = <<>>
C7_Witness ==
    /\ pc = "done"
    /\ raisedAt = "connect"
    /\ ~escaped

\* C8: while every creation request so far has failed (None or raised), no
\* destroy() call is made and no exception leaves main(), and the session is
\* never stuck short of the end of main().
AllSpawnsFailed == \A j \in DOMAIN requests : requests[j].result # "ok"
C8_AllSpawnsFail ==
    AllSpawnsFailed =>
        /\ destroyLog = <<>>
        /\ ~escaped
        /\ pc = "done" \/ ENABLED Next
C8_Witness ==
    /\ pc = "done"
    /\ requests # <<>>
    /\ AllSpawnsFailed
    /\ vehicle = NoneVal

\* C9: traffic unit i is requested at spawn point i mod M, so unit i and unit
\* i + M are requested at the same spawn point.
CarRequests == {j \in DOMAIN requests : requests[j].kind = "car"}
Quadruple(image, x, y) ==
    SubSeq(image.raw_data,
           4 * ((y - 1) * image.width + (x - 1)) + 1,
           4 * ((y - 1) * image.width + (x - 1)) + 4)
C10_DecodeRGB ==
    pc = "dec_done" =>
        LET image == latest_image[1] IN
        /\ Len(image.raw_data) = image.width * image.height * 4
        /\ Len(surface) = image.width
        /\ \A x \in 1..image.width :
             /\ Len(surface[x]) = image.height
             /\ \A y \in 1..image.height :
                  LET q == Quadruple(image, x, y) IN
                  surface[x][y] = <<q[3], q[2], q[1]>>
C10_Witness ==
    /\ pc = "dec_done"
    /\ latest_image[1].width = 2
    /\ latest_image[1].height = 1
    /\ surface = << <<<<30, 20, 10>>>>, <<<<60, 50, 40>>>> >>


\* C11: a tick whose decode step reads a malformed frame (buffer length other
\* than width * height * 4) performs no blit and goes on to its flip, so the
\* loop keeps running.
C11_MalformedFrameDiscarded ==
    [][(/\ pc = "loop_decode"
        /\ pc' # "loop_decode"
        /\ latest_image # <<>>
        /\ ~Decodable(latest_image[1]))
          => (pc' = "loop_flip" /\ loopLog' = loopLog)]_vars

\* C13: the frame a tick blits is the frame its availability test read.
C13_TestedFrameIsBlitted ==
    (pc = "loop_flip" /\ loopLog # <<>> /\ Last(loopLog) = "blit") =>
        /\ tested # <<>>
        /\ Decodable(tested[1])
        /\ surface = SurfaceArray(tested[1])


\* C12: inside spawn_traffic_cars a None result is skipped and the loop goes
\* on; the list holds exactly the handles of the successful creations so
\* far, in request order, each with autopilot enabled once its iteration is
\* over; and when the function has returned, all NumCars units were requested
\* and main's list is that list, of length at most NumCars.
RECURSIVE OkCars(_)
OkCars(reqs) ==
    IF reqs = <<>> THEN <<>>
    ELSE IF Head(reqs).kind = "car" /\ Head(reqs).result = "ok"
         THEN <<CarH(Head(reqs).unit)>> \o OkCars(Tail(reqs))
         ELSE OkCars(Tail(reqs))
StcReturned ==
    /\ script \in {Basic, Traffic}
    /\ pc \in {"agent", "loop_events", "run_step", "apply_control", "loop_test",
               "loop_decode", "loop_flip"}
C12_SpawnFailureNonFatal ==
    /\ pc \in {"stc_loop", "stc_autopilot"} =>
         /\ stc_cars = OkCars(requests)
         /\ \A j \in DOMAIN stc_cars :
              (j < Len(stc_cars) \/ pc = "stc_loop") => stc_cars[j] \in autopilot
    /\ (requests # <<>> /\ Last(requests).kind = "car" /\ Last(requests).result = "None")
         => raisedAt # "stc_loop"
    /\ StcReturned =>
         /\ Cardinality({j \in DOMAIN requests : requests[j].kind = "car"}) = NumCars
         /\ traffic_cars = OkCars(requests)
         /\ Len(traffic_cars) <= NumCars
         /\ \A j \in DOMAIN traffic_cars : traffic_cars[j] \in autopilot
C12_Witness ==
    /\ StcReturned
    /\ Len(traffic_cars) = NumCars - 1
    /\ requests[Len(requests) - 1].result = "None"
    /\ Last(requests).result = "ok"


\* C14: in basicEgentFirstTime every tick that saw no quit event calls
\* run_step once, then apply_control once, and only then blits and flips:
\* the loop's calls come in the order event poll, run_step, apply_control,
\* (blit,) flip, and the next tick starts after the flip.
C14_ControlEachTick ==
    script = Basic =>
        \A j \in DOMAIN loopLog :
            /\ loopLog[j] = "event_get" => (j = 1 \/ loopLog[j - 1] = "flip")
            /\ loopLog[j] = "run_step" => (j > 1 /\ loopLog[j - 1] = "event_get")
            /\ loopLog[j] = "apply_control" => (j > 1 /\ loopLog[j - 1] = "run_step")
            /\ loopLog[j] = "blit" => (j > 1 /\ loopLog[j - 1] = "apply_control")
            /\ loopLog[j] = "flip" =>
                 (j > 1 /\ loopLog[j - 1] \in {"apply_control", "blit"})
            /\ (j < Len(loopLog) /\ loopLog[j] = "event_get") => loopLog[j + 1] = "run_step"
            /\ (j < Len(loopLog) /\ loopLog[j] = "run_step") => loopLog[j + 1] = "apply_control"
C14_Witness ==
    /\ script = Basic
    /\ ticks = 2
    /\ Count(loopLog, "run_step") = 2
    /\ Count(loopLog, "apply_control") = 2
    /\ InSeq(loopLog, "blit")

\* C15: while the callback has delivered no frame, no tick blits or even
\* enters the decode step, the display stays blank, and in the two scripts
\* without an agent the loop's calls are event poll, flip, event poll, flip...
C15_NoBlitBeforeFirstFrame ==
    nDelivered = 0 =>
        /\ ~InSeq(loopLog, "blit")
        /\ surface = <<>>
        /\ pc # "loop_decode"
        /\ script # Basic =>
             \A j \in DOMAIN loopLog :
                 loopLog[j] = (IF j % 2 = 1 THEN "event_get" ELSE "flip")
C15_Witness ==
    /\ nDelivered = 0
    /\ script = Traffic
    /\ listening
    /\ ticks = 2
    /\ Count(loopLog, "flip") = 2


\* C16: nothing is retried.  The reference vehicle, the camera and the marker
\* bus are each requested at most once; traffic units are requested in the
\* order 0, 1, 2, ... each once, never more than NumCars of them, and exactly
\* NumCars when spawn_traffic_cars has returned, whatever results came back;
\* and the connect / load_world block is never entered a second time.
KindRequests(kind) == {j \in DOMAIN requests : requests[j].kind = kind}
CarUnits == [j \in 1..Cardinality(KindRequests("car")) |->
                requests[Len(requests) - Cardinality(KindRequests("car")) + j].unit]
C16_NoRetries ==
    /\ [](/\ \A kind \in {"vehicle", "camera", "bus"} :
               Cardinality(KindRequests(kind)) <= 1
          /\ Cardinality(KindRequests("car")) <= NumCars
          /\ \A j \in DOMAIN CarUnits : CarUnits[j] = j - 1
          /\ StcReturned => Cardinality(KindRequests("car")) = NumCars)
    /\ [][pc' = "connect" => pc = "connect"]_vars
C16_Witness ==
    /\ StcReturned
    /\ script = Basic
    /\ bus = NoneVal
    /\ Len(traffic_cars) = 1
    /\ requests[Len(requests) - 1].result = "ok"
    /\ Len(requests) = 3 + NumCars


\* C17: the display loop is left only by a step that observes a QUIT event
\* or by a raised exception; short of the tick bound a loop statement always
\* has a successor that stays in the loop; and once a QUIT event was observed
\* the session eventually has completed teardown (every handle it held is
\* destroyed) and main() has returned without an exception.
LoopPcs ==
    {"loop_events", "run_step", "apply_control", "loop_test", "loop_decode",
     "loop_flip"}
StaysInLoop ==
    /\ MainStep
    /\ pc' \in LoopPcs
    /\ quitSeen' = quitSeen
    /\ raisedAt' = raisedAt
TeardownComplete ==
    /\ pc = "done"
    /\ ~escaped
    /\ Held \subseteq Destroyed
C17_LoopExitsOnlyByQuitOrError ==
    /\ [][(pc \in LoopPcs /\ pc' \notin LoopPcs) =>
            \/ (~quitSeen /\ quitSeen' /\ pc' = "fin_quit")
            \/ (pc' = "except" /\ raisedAt' = pc)]_vars
    /\ []((pc \in LoopPcs /\ ticks < MaxTicks
            /\ (pc = "loop_decode" => Decodable(latest_image[1])))
          => ENABLED StaysInLoop)
    /\ quitSeen ~> TeardownComplete


\* C18: a camera handle exists only if the reference vehicle handle was
\* acquired; a marker bus or a traffic car is requested only by a step taken
\* while the camera exists and its frame callback is registered, and the
\* camera's creation request precedes it; with no spawn points, or with a
\* reference vehicle spawn that returned None, no camera, marker or traffic
\* creation request is issued.
LaterKinds == {"bus", "car"}
C18_AcquisitionOrder ==
    /\ [](/\ (CameraH \in acquired => VehicleH \in acquired)
          /\ \A j \in DOMAIN requests :
                requests[j].kind \in LaterKinds =>
                   \E c \in 1..(j - 1) :
                      requests[c].kind = "camera" /\ requests[c].result = "ok"
          /\ (spawn_points = 0 \/ vehicle = NoneVal) =>
                \A j \in DOMAIN requests :
                   requests[j].kind \notin (LaterKinds \cup {"camera"}))
    /\ [][(Len(requests') > Len(requests) /\ Last(requests').kind \in LaterKinds)
            => (listening /\ camera = CameraH /\ vehicle = VehicleH)]_vars
C18_Witness ==
    /\ script = Basic
    /\ listening
    /\ KindRequests("bus") # {}
    /\ KindRequests("car") # {}
    /\ pc = "loop_events"


\* C19: in the two traffic variants every traffic unit i with i mod M = 0,
\* unit 0 among them, is requested at spawn point 0, the pose of the earlier
\* successful reference vehicle request; and when every traffic request at
\* the reference vehicle's pose was rejected, spawn_traffic_cars has
\* returned fewer than NumCars handles.
AtVehiclePose(a) ==
    \E v \in KindRequests("vehicle") :
       /\ v < a
       /\ requests[v].result = "ok"
       /\ requests[v].pose = requests[a].pose
OccupiedPoseRejected ==
    \A a \in CarRequests : AtVehiclePose(a) => requests[a].result = "None"
C20_SlotMonotone ==
    /\ [](nDelivered = 0 => latest_image = <<>>)
    /\ [][latest_image' # latest_image =>
            (listening /\ nDelivered' = nDelivered + 1 /\ pc' = pc)]_vars
    /\ [][latest_image # <<>> => latest_image' # <<>>]_vars
    /\ [](pc = "loop_decode" => latest_image # <<>>)
C20_Witness ==
    /\ pc = "loop_decode"
    /\ ticks = 1
    /\ InSeq(loopLog, "blit")
    /\ tested # <<>>
    /\ latest_image # <<>>
    /\ latest_image # tested

====
